---- MODULE Spec2Model ----
(***************************************************************************)
(* Falling-rock chamber simulation with cycle detection and extrapolation  *)
(* (src/src/bin/17.rs).  Rows and columns of the chamber and of a rock are  *)
(* 0-based in the source and 1-based here: the source's row y is element   *)
(* y + 1 of a sequence, the source's column c is element c + 1 of a row.   *)
(* Row 0 is the floor; larger row indices are higher up.                   *)
(***************************************************************************)
EXTENDS Integers, Sequences, FiniteSets, TLC

VARIABLES
    caller,            \* "play" (fn play), "test" (tests::_01_falling_rocks), "main"
    printed,           \* main's standard output: the values printed so far
    jet_stream_seq,    \* the wind sequence handed to play / play_aux
    num_rounds,        \* play's target (usize); for the test caller the closure's limit
    pc,                \* position in the code
    phase,             \* which play_aux call is running: "detect", "replay", "test"
    chamber,           \* play_aux's chamber
    steps,             \* play_aux's steps: rocks dropped in this call
    rock_i,            \* index of the next rock of the cycling enumerate()
    jet_stream_index,  \* play_aux's jet_stream_index
    rock,              \* fall_rock's rock
    y,                 \* fall_rock's y
    fsteps,            \* fall_rock's steps
    visited,           \* play's HashMap: fingerprint -> <<drops, rows>>
    cycle,             \* the tuple play_aux returns to play at a repeat
    num_cycles,        \* play's num_cycles (usize)
    end_garbage_steps, \* play's end_garbage_steps (usize)
    wrapped,           \* some usize operation of play exceeded 64 bits
    result,            \* play's return value (usize), <<>> before it returns
    panic              \* the panic that ended the run, "" when there is none

vars == <<caller, printed, jet_stream_seq, num_rounds, pc, phase, chamber, steps, rock_i,
          jet_stream_index, rock, y, fsteps, visited, cycle, num_cycles,
          end_garbage_steps, wrapped, result, panic>>

-----------------------------------------------------------------------------
(* Bounds of the model. *)

MaxWindLen == 4
MaxRounds == 12
MaxDeepRounds == 30
MaxGain == 6

-----------------------------------------------------------------------------
(* Program constants. *)

Width == 7
Clearance == 3
ContourDepth == 10
NumRocks == 5
UsizeBytes == 8

-----------------------------------------------------------------------------
(* usize: 64 bits, held as UsizeBytes base-256 limbs, least significant     *)
(* first.  Every operation wraps modulo 2^64 and also tells whether it did  *)
(* (a build with overflow checks panics where one does); play records that  *)
(* in the variable wrapped.                                                 *)

RECURSIVE Limbs(_, _)
Limbs(n, k) == IF k = 0 THEN <<>> ELSE <<n % 256>> \o Limbs(n \div 256, k - 1)

ToUsize(n) == Limbs(n, UsizeBytes)

RECURSIVE SmallFrom(_, _)
SmallFrom(a, k) == IF k > 3 THEN 0 ELSE a[k] + 256 * SmallFrom(a, k + 1)

\* The value of a usize below 2^24.
ToSmall(a) == SmallFrom(a, 1)

IsSmall(a) == \A k \in 4..UsizeBytes : a[k] = 0

RECURSIVE AddFrom(_, _, _, _)
AddFrom(a, b, k, c) ==
    IF k > UsizeBytes THEN <<c>>
    ELSE LET s == a[k] + b[k] + c
         IN  <<s % 256>> \o AddFrom(a, b, k + 1, s \div 256)

\* a + b: the limbs of the sum, followed by the carry out of the top limb.
AddWide(a, b) == AddFrom(a, b, 1, 0)

RECURSIVE SubFrom(_, _, _, _)
SubFrom(a, b, k, c) ==
    IF k > UsizeBytes THEN <<c>>
    ELSE LET d == a[k] + 256 - b[k] - c
         IN  <<d % 256>> \o SubFrom(a, b, k + 1, IF d < 256 THEN 1 ELSE 0)

\* a - b: the limbs of the difference, followed by the borrow out of the top limb.
SubWide(a, b) == SubFrom(a, b, 1, 0)

RECURSIVE MulFrom(_, _, _, _)
MulFrom(a, m, k, c) ==
    IF k > UsizeBytes THEN <<c>>
    ELSE LET p == a[k] * m + c
         IN  <<p % 256>> \o MulFrom(a, m, k + 1, p \div 256)

\* The product kept in 32 bits only.
MulWide32(a, m) ==
    [k \in 1..(UsizeBytes + 1) |-> IF k <= 4 THEN MulFrom(a, m, 1, 0)[k] ELSE 0]

\* a * m for a multiplier m below 2^22: the limbs of the product, followed by
\* the carry out of the top limb.
MulWide(a, m) == MulFrom(a, m, 1, 0)

Low(w) == SubSeq(w, 1, UsizeBytes)
Carry(w) == w[UsizeBytes + 1]

RECURSIVE DivFrom(_, _, _, _)
DivFrom(a, d, k, r) ==
    IF k = 0 THEN <<>>
    ELSE LET n == r * 256 + a[k]
         IN  DivFrom(a, d, k - 1, n % d) \o <<n \div d>>

\* The quotient rounded up.
UsizeDivUp(a, d) == DivFrom(Low(AddWide(a, ToUsize(d - 1))), d, UsizeBytes, 0)

\* a / d (integer division) for a divisor 0 < d < 2^22.
UsizeDiv(a, d) == DivFrom(a, d, UsizeBytes, 0)

RECURSIVE LessFrom(_, _, _)
LessFrom(a, b, k) ==
    IF k = 0 THEN FALSE
    ELSE IF a[k] # b[k] THEN a[k] < b[k]
    ELSE LessFrom(a, b, k - 1)

UsizeLess(a, b) == LessFrom(a, b, UsizeBytes)
UsizeGe(a, b) == ~UsizeLess(a, b)

-----------------------------------------------------------------------------
(* The shape catalog: Shape::starting_point of each rock, bottom row first. *)

Line == << <<0, 0, 1, 1, 1, 1, 0>> >>

Plus == << <<0, 0, 0, 1, 0, 0, 0>>,
           <<0, 0, 1, 1, 1, 0, 0>>,
           <<0, 0, 0, 1, 0, 0, 0>> >>

L == << <<0, 0, 1, 1, 1, 0, 0>>,
        <<0, 0, 0, 0, 1, 0, 0>>,
        <<0, 0, 0, 0, 1, 0, 0>> >>

I == << <<0, 0, 1, 0, 0, 0, 0>>,
        <<0, 0, 1, 0, 0, 0, 0>>,
        <<0, 0, 1, 0, 0, 0, 0>>,
        <<0, 0, 1, 0, 0, 0, 0>> >>

O == << <<0, 0, 1, 1, 0, 0, 0>>,
        <<0, 0, 1, 1, 0, 0, 0>> >>

rocks == <<Line, Plus, L, I, O>>

\* The shape after the one asked for.
starting_point_next(i) == rocks[((i + 1) % NumRocks) + 1]

\* The starting point of the rock the cycling enumerate() yields at index i.
starting_point(i) == rocks[i + 1]

-----------------------------------------------------------------------------
(* Geometry. *)

EmptyRow == [c \in 1..Width |-> 0]
\* A bottom row with a gap at the left wall.
FloorOpen == [c \in 1..Width |-> IF c = 1 THEN 0 ELSE 1]

Floor == [c \in 1..Width |-> 1]

\* Array2::from_elem((1, 7), 1): the chamber play_aux starts from.
EmptyChamber == <<Floor>>

RECURSIVE ColumnSum(_, _, _)
ColumnSum(r, c, i) == IF i = 0 THEN 0 ELSE r[i][c] + ColumnSum(r, c, i - 1)

\* The shift to the left without the test of the wall.
try_push_left_unchecked(r) == [i \in 1..Len(r) |-> Tail(r[i]) \o <<0>>]

\* The wall test on the wrong column.
try_push_left_col6(r) ==
    IF ColumnSum(r, Width, Len(r)) > 0 THEN r
    ELSE [i \in 1..Len(r) |-> Tail(r[i]) \o <<0>>]

try_push_left(r) ==
    IF ColumnSum(r, 1, Len(r)) > 0 THEN r
    ELSE [i \in 1..Len(r) |-> Tail(r[i]) \o <<0>>]

\* The shift to the right without the test of the wall.
try_push_right_unchecked(r) ==
    [i \in 1..Len(r) |-> <<0>> \o SubSeq(r[i], 1, Width - 1)]

\* The shift to the right that leaves the cells at the wall where they are.
try_push_right_squeezed(r) ==
    [i \in 1..Len(r) |->
        <<0>> \o SubSeq(r[i], 1, Width - 2)
              \o <<IF r[i][Width - 1] + r[i][Width] > 0 THEN 1 ELSE 0>>]

try_push_right(r) ==
    IF ColumnSum(r, Width, Len(r)) > 0 THEN r
    ELSE [i \in 1..Len(r) |-> <<0>> \o SubSeq(r[i], 1, Width - 1)]

\* The comparison of the rock's lowest lane alone.
intersects_at_lowest(ch, r, yy) ==
    /\ yy < Len(ch)
    /\ \E c \in 1..Width : ch[yy + 1][c] + r[1][c] > 1

\* Lanes of the rock above the chamber's last row are not compared.
intersects_at(ch, r, yy) ==
    \E i \in 0..(Len(r) - 1) :
        /\ yy + i < Len(ch)
        /\ \E c \in 1..Width : ch[yy + i + 1][c] + r[i + 1][c] > 1

\* The wind one place further on.
WindAtNext(seq, index, n) == seq[((index + n + 1) % Len(seq)) + 1]

\* Line 192 (cycle().skip(index)) and line 139: the wind the cycling, skipping
\* iterator yields at its n-th next().
WindAt(seq, index, n) == seq[((index + n) % Len(seq)) + 1]

IsWind(w) == w \in {"<", ">"}

\* Lines 139-149: the rock after the push by wind w (an empty sequence yields
\* no wind at all and the rock is left alone).
Pushed(ch, r, yy, seq, index, n) ==
    IF Len(seq) = 0 THEN r
    ELSE LET w == WindAt(seq, index, n)
             moved_rock == IF w = "<" THEN try_push_left(r) ELSE try_push_right(r)
         IN  IF ~intersects_at(ch, moved_rock, yy) THEN moved_rock ELSE r

\* The chamber cut to the rock's top row when the rock rests below it.
GrownToRock(ch, r, yy) ==
    IF Len(ch) < yy + Len(r)
    THEN ch \o [k \in 1..(yy + Len(r) - Len(ch)) |-> EmptyRow]
    ELSE SubSeq(ch, 1, yy + Len(r))

\* The chamber grown by as many rows as the rock has, wherever it rests.
GrownByRock(ch, r, yy) == ch \o [k \in 1..Len(r) |-> EmptyRow]

\* Lines 159-164: the chamber grown to hold the rows yy .. yy + rows of the rock.
Grown(ch, r, yy) ==
    IF Len(ch) < yy + Len(r)
    THEN ch \o [k \in 1..(yy + Len(r) - Len(ch)) |-> EmptyRow]
    ELSE ch

\* The rock's lanes written over the chamber's rows.
SettledOver(ch, r, yy) ==
    LET g == Grown(ch, r, yy)
    IN  [k \in 1..Len(g) |->
            IF k - 1 >= yy /\ k - 1 < yy + Len(r) THEN r[k - yy] ELSE g[k]]

\* Lines 159-172: the rock added into the chamber at row yy.
Settled(ch, r, yy) ==
    LET g == Grown(ch, r, yy)
    IN  [k \in 1..Len(g) |->
            IF k - 1 >= yy /\ k - 1 < yy + Len(r)
            THEN [c \in 1..Width |-> g[k][c] + r[k - yy][c]]
            ELSE g[k]]

\* The wind pointer without the wrap.
NextIndexUnwrapped(index, n, seq) == index + n

\* The pointer reduced modulo one more than the length.
NextIndexInclusive(index, n, seq) == (index + n) % (Len(seq) + 1)

\* Line 200: the wind pointer after a rock that took n loop iterations.
NextIndex(index, n, seq) == (index + n) % Len(seq)

\* A closure that never stops the loop.
StopNever(i, k) == FALSE

\* The stop one drop late.
StopAfter(i, k) == UsizeLess(k, ToUsize(i))

\* Lines 255 and 287: the stop of the replay's and of the test's closure.
StopAt(i, k) == UsizeGe(ToUsize(i), k)

\* The slice begun one row too high.
ContourShort(ch) == SubSeq(ch, Len(ch) - ContourDepth + 2, Len(ch))

\* Lines 228-231: the topmost ContourDepth rows.
Contour(ch) == SubSeq(ch, Len(ch) - ContourDepth + 1, Len(ch))

\* The key without the wind pointer.
FingerprintNoWind(ch, ri, index) == <<ri, 0, Contour(ch)>>

\* The key of play's HashMap.
Fingerprint(ch, ri, index) == <<ri, index, Contour(ch)>>

-----------------------------------------------------------------------------
(* Inputs. *)

EXAMPLE ==
    <<">", ">", ">", "<", "<", ">", "<", ">", ">", "<",
      "<", "<", ">", ">", "<", ">", ">", ">", "<", "<",
      "<", ">", ">", ">", "<", "<", "<", ">", "<", "<",
      "<", ">", ">", "<", ">", ">", "<", "<", ">", ">">>

\* Every sequence over {<, >} of at most MaxWindLen characters.
ShortWinds == UNION {[1..n -> {"<", ">"}] : n \in 0..MaxWindLen}

\* The same lines as read_line returns them when the input ends each line
\* with a line terminator: the terminator is kept.
TerminatedLines == {Append(w, "\n") : w \in ShortWinds}

\* A wind under which a rock falls past the topmost ContourDepth rows.
DeepWind == <<"<", ">", ">", "<", ">", ">", "<">>

\* The targets main passes to play (lines 273-274).
\* 1000000000000 = 232 * 256^4 + 212 * 256^3 + 165 * 256^2 + 16 * 256.
TenTo12 == <<0, 16, 165, 212, 232, 0, 0, 0>>
MainTargets == {ToUsize(2022), TenTo12}

SmallTargets == {ToUsize(n) : n \in 0..MaxRounds}
DeepTargets == {ToUsize(n) : n \in 0..MaxDeepRounds}

-----------------------------------------------------------------------------
(* The state machine. *)

NoCycle == <<>>
NoRock == <<>>
Zero == ToUsize(0)

InitRun(c, seq, n) ==
    /\ caller = c
    /\ printed = <<>>
    /\ jet_stream_seq = seq
    /\ num_rounds = n
    /\ pc = "until"
    /\ phase = IF c = "test" THEN "test" ELSE "detect"
    /\ chamber = EmptyChamber
    /\ steps = 0
    /\ rock_i = 0
    /\ jet_stream_index = 0
    /\ rock = NoRock
    /\ y = 0
    /\ fsteps = 0
    /\ visited = <<>>
    /\ cycle = NoCycle
    /\ num_cycles = Zero
    /\ end_garbage_steps = Zero
    /\ wrapped = FALSE
    /\ result = <<>>
    /\ panic = ""

Init ==
    \/ \E seq \in ShortWinds \cup TerminatedLines \cup {EXAMPLE} :
       \E n \in SmallTargets \cup MainTargets : InitRun("play", seq, n)
    \/ \E seq \in ShortWinds \cup TerminatedLines \cup {EXAMPLE} :
       \E n \in SmallTargets : InitRun("test", seq, n)
    \/ \E n \in DeepTargets \cup MainTargets : InitRun("play", DeepWind, n)
    \/ \E seq \in ShortWinds \cup TerminatedLines \cup {EXAMPLE} :
       InitRun("main", seq, ToUsize(2022))

\* The rock started right on top of the chamber's last row.
EnterFallRockAtTop ==
    /\ pc' = "loop"
    /\ rock' = starting_point(rock_i)
    /\ y' = Len(chamber)
    /\ fsteps' = 0

\* The rock started two rows above the chamber's last row.
EnterFallRockLow ==
    /\ pc' = "loop"
    /\ rock' = starting_point(rock_i)
    /\ y' = Len(chamber) + Clearance - 1
    /\ fsteps' = 0

\* Lines 192-195 and 135-136: play_aux calls fall_rock with the next rock.
EnterFallRock ==
    /\ pc' = "loop"
    /\ rock' = starting_point(rock_i)
    /\ y' = Len(chamber) + Clearance
    /\ fsteps' = 0

Panic(why) ==
    /\ pc' = "panic"
    /\ panic' = why

\* The entry of the first occurrence read as <<rows, drops>>.
CycleFoundSwapped(ch, i, ri, index, first) ==
    [after_cycle |-> ch,
     jet_stream_cycle_at |-> index,
     rocks_cycle_at |-> ri,
     cycle_step_length |-> i - first[2],
     cycle_height |-> Len(ch) - first[1],
     start_garbage_height |-> first[1],
     start_garbage_steps |-> first[2]]

\* The repeat reported with the first shape as the next one.
CycleFoundFirstShape(ch, i, ri, index, first) ==
    [after_cycle |-> ch,
     jet_stream_cycle_at |-> index,
     rocks_cycle_at |-> 0,
     cycle_step_length |-> i - first[1],
     cycle_height |-> Len(ch) - first[2],
     start_garbage_height |-> first[2],
     start_garbage_steps |-> first[1]]

\* Lines 234-241: what the closure returns at the repeat of a fingerprint
\* whose entry is first = <<drops, rows>>.
CycleFound(ch, i, ri, index, first) ==
    [after_cycle |-> ch,
     jet_stream_cycle_at |-> index,
     rocks_cycle_at |-> ri,
     cycle_step_length |-> i - first[1],
     cycle_height |-> Len(ch) - first[2],
     start_garbage_height |-> first[2],
     start_garbage_steps |-> first[1]]

\* The insertion into a map made anew at every call of the closure.
InsertFresh(map, key, val) == (key :> val)

\* Line 243: HashMap::insert.
Insert(map, key, val) ==
    [k \in DOMAIN map \cup {key} |-> IF k = key THEN val ELSE map[k]]

\* The detector that notes the repeat and lets the loop go on.
DetectUntilGoesOn ==
    /\ pc = "until"
    /\ phase = "detect"
    /\ IF UsizeGe(ToUsize(steps), num_rounds)
       THEN /\ Panic("unwrap on None")
            /\ UNCHANGED <<rock, y, fsteps, visited, cycle>>
       ELSE IF Len(chamber) >= ContourDepth
       THEN LET key == Fingerprint(chamber, rock_i, jet_stream_index)
            IN  IF key \in DOMAIN visited
                THEN /\ cycle' = <<CycleFound(chamber, steps, rock_i, jet_stream_index,
                                               visited[key])>>
                     /\ EnterFallRock
                     /\ UNCHANGED <<visited, panic>>
                ELSE /\ visited' = Insert(visited, key, <<steps, Len(chamber)>>)
                     /\ EnterFallRock
                     /\ UNCHANGED <<cycle, panic>>
       ELSE /\ EnterFallRock
            /\ UNCHANGED <<visited, cycle, panic>>
    /\ UNCHANGED <<caller, printed, jet_stream_seq, num_rounds, phase, chamber, steps,
                   rock_i, jet_stream_index, num_cycles, end_garbage_steps, wrapped, result>>

\* The closure with the look-up of the fingerprint put before the test of
\* the target.
DetectUntilFingerprintFirst ==
    /\ pc = "until"
    /\ phase = "detect"
    /\ LET key == Fingerprint(chamber, rock_i, jet_stream_index)
       IN  IF Len(chamber) >= ContourDepth /\ key \in DOMAIN visited
           THEN /\ cycle' = <<CycleFound(chamber, steps, rock_i, jet_stream_index,
                                          visited[key])>>
                /\ pc' = "extrapolate"
                /\ UNCHANGED <<rock, y, fsteps, visited, panic>>
           ELSE IF UsizeGe(ToUsize(steps), num_rounds)
           THEN /\ Panic("unwrap on None")
                /\ UNCHANGED <<rock, y, fsteps, visited, cycle>>
           ELSE /\ visited' = IF Len(chamber) >= ContourDepth
                               THEN Insert(visited, key, <<steps, Len(chamber)>>)
                               ELSE visited
                /\ EnterFallRock
                /\ UNCHANGED <<cycle, panic>>
    /\ UNCHANGED <<caller, printed, jet_stream_seq, num_rounds, phase, chamber, steps,
                   rock_i, jet_stream_index, num_cycles, end_garbage_steps, wrapped, result>>

\* Line 188 with the closure of lines 224-248: the cycle detector.
DetectUntil ==
    /\ pc = "until"
    /\ phase = "detect"
    /\ IF UsizeGe(ToUsize(steps), num_rounds)
       THEN \* Some(None): the second unwrap of line 249 panics
            /\ Panic("unwrap on None")
            /\ UNCHANGED <<rock, y, fsteps, visited, cycle>>
       ELSE IF Len(chamber) >= ContourDepth
       THEN LET key == Fingerprint(chamber, rock_i, jet_stream_index)
            IN  IF key \in DOMAIN visited
                THEN /\ cycle' = <<CycleFound(chamber, steps, rock_i, jet_stream_index,
                                               visited[key])>>
                     /\ pc' = "extrapolate"
                     /\ UNCHANGED <<rock, y, fsteps, visited, panic>>
                ELSE /\ visited' = Insert(visited, key, <<steps, Len(chamber)>>)
                     /\ EnterFallRock
                     /\ UNCHANGED <<cycle, panic>>
       ELSE /\ EnterFallRock
            /\ UNCHANGED <<visited, cycle, panic>>
    /\ UNCHANGED <<caller, printed, jet_stream_seq, num_rounds, phase, chamber, steps,
                   rock_i, jet_stream_index, num_cycles, end_garbage_steps, wrapped, result>>

\* Line 188 with the closure of lines 254-259: the leftover replay's stop.
ReplayUntil ==
    /\ pc = "until"
    /\ phase = "replay"
    /\ IF StopAt(steps, end_garbage_steps)
       THEN /\ pc' = "finish"
            /\ UNCHANGED <<rock, y, fsteps>>
       ELSE EnterFallRock
    /\ UNCHANGED <<caller, printed, jet_stream_seq, num_rounds, phase, chamber, steps,
                   rock_i, jet_stream_index, visited, cycle, num_cycles, end_garbage_steps,
                   wrapped, result, panic>>

\* A stop predicate that sets the wind pointer back when it lets the loop go on.
TestUntilRewinds ==
    /\ pc = "until"
    /\ phase = "test"
    /\ IF StopAt(steps, num_rounds)
       THEN /\ pc' = "done"
            /\ UNCHANGED <<rock, y, fsteps, jet_stream_index>>
       ELSE /\ EnterFallRock
            /\ jet_stream_index' = 0
    /\ UNCHANGED <<caller, printed, jet_stream_seq, num_rounds, phase, chamber, steps,
                   rock_i, visited, cycle, num_cycles, end_garbage_steps,
                   wrapped, result, panic>>

\* Line 188 with the closure of lines 286-291: the test's stop.
TestUntil ==
    /\ pc = "until"
    /\ phase = "test"
    /\ IF StopAt(steps, num_rounds)
       THEN /\ pc' = "done"
            /\ UNCHANGED <<rock, y, fsteps>>
       ELSE EnterFallRock
    /\ UNCHANGED <<caller, printed, jet_stream_seq, num_rounds, phase, chamber, steps,
                   rock_i, jet_stream_index, visited, cycle, num_cycles, end_garbage_steps,
                   wrapped, result, panic>>

\* The iteration with the fall attempted before the push.
LoopIterFallFirst ==
    /\ pc = "loop"
    /\ IF Len(jet_stream_seq) > 0
          /\ ~IsWind(WindAt(jet_stream_seq, jet_stream_index, fsteps))
       THEN /\ Panic("explicit panic")
            /\ UNCHANGED <<rock, y, fsteps>>
       ELSE IF y = 0
       THEN /\ Panic("attempt to subtract with overflow")
            /\ UNCHANGED <<rock, y, fsteps>>
       ELSE /\ fsteps' = fsteps + 1
            /\ IF ~intersects_at(chamber, rock, y - 1)
               THEN /\ y' = y - 1
                    /\ rock' = Pushed(chamber, rock, y - 1, jet_stream_seq,
                                      jet_stream_index, fsteps)
                    /\ pc' = "loop"
               ELSE /\ y' = y
                    /\ rock' = rock
                    /\ pc' = "settle"
            /\ UNCHANGED panic
    /\ UNCHANGED <<caller, printed, jet_stream_seq, num_rounds, phase, chamber, steps,
                   rock_i, jet_stream_index, visited, cycle, num_cycles, end_garbage_steps,
                   wrapped, result>>

\* Lines 138-157: one iteration of fall_rock's loop.
LoopIter ==
    /\ pc = "loop"
    /\ IF Len(jet_stream_seq) > 0
          /\ ~IsWind(WindAt(jet_stream_seq, jet_stream_index, fsteps))
       THEN \* line 143
            /\ Panic("explicit panic")
            /\ UNCHANGED <<rock, y, fsteps>>
       ELSE IF y = 0
       THEN \* line 152: y - 1 on a usize
            /\ Panic("attempt to subtract with overflow")
            /\ UNCHANGED <<rock, y, fsteps>>
       ELSE LET r == Pushed(chamber, rock, y, jet_stream_seq, jet_stream_index, fsteps)
            IN  /\ rock' = r
                /\ fsteps' = fsteps + 1
                /\ IF ~intersects_at(chamber, r, y - 1)
                   THEN /\ y' = y - 1
                        /\ pc' = "loop"
                   ELSE /\ y' = y
                        /\ pc' = "settle"
                /\ UNCHANGED panic
    /\ UNCHANGED <<caller, printed, jet_stream_seq, num_rounds, phase, chamber, steps,
                   rock_i, jet_stream_index, visited, cycle, num_cycles, end_garbage_steps,
                   wrapped, result>>

\* Lines 159-172 of fall_rock and lines 198-202 of play_aux.
Settle ==
    /\ pc = "settle"
    /\ LET next_chamber == Settled(chamber, rock, y)
       IN  IF ~(\E k \in 1..Len(next_chamber) : \E c \in 1..Width :
                    next_chamber[k][c] <= 1)
           THEN \* line 198
                /\ Panic("debug_assert")
                /\ UNCHANGED <<chamber, steps, rock_i, jet_stream_index>>
           ELSE IF Len(jet_stream_seq) = 0
           THEN \* line 200
                /\ Panic("remainder with a divisor of zero")
                /\ UNCHANGED <<chamber, steps, rock_i, jet_stream_index>>
           ELSE /\ chamber' = next_chamber
                /\ jet_stream_index' =
                       NextIndex(jet_stream_index, fsteps, jet_stream_seq)
                /\ steps' = steps + 1
                /\ rock_i' = (rock_i + 1) % NumRocks
                /\ pc' = "until"
                /\ UNCHANGED panic
    /\ UNCHANGED <<caller, printed, jet_stream_seq, num_rounds, phase, rock, y, fsteps,
                   visited, cycle, num_cycles, end_garbage_steps, wrapped, result>>

\* Lines 252-253 and the call of lines 254-260.
Extrapolate ==
    /\ pc = "extrapolate"
    /\ LET c == cycle[1]
           remaining == SubWide(num_rounds, ToUsize(c.start_garbage_steps))
       IN  IF c.cycle_step_length = 0
           THEN \* line 252
                /\ Panic("attempt to divide by zero")
                /\ UNCHANGED <<phase, chamber, steps, rock_i, jet_stream_index,
                               num_cycles, end_garbage_steps, wrapped>>
           ELSE LET n == UsizeDiv(Low(remaining), c.cycle_step_length)
                    whole == MulWide(n, c.cycle_step_length)
                    rest == SubWide(Low(remaining), Low(whole))
                IN  /\ num_cycles' = n
                    /\ end_garbage_steps' = Low(rest)
                    /\ wrapped' = (wrapped \/ Carry(remaining) # 0
                                     \/ Carry(whole) # 0 \/ Carry(rest) # 0)
                    /\ phase' = "replay"
                    /\ chamber' = c.after_cycle
                    /\ steps' = 0
                    /\ rock_i' = c.rocks_cycle_at % NumRocks
                    /\ jet_stream_index' = c.jet_stream_cycle_at
                    /\ pc' = "until"
                    /\ UNCHANGED panic
    /\ UNCHANGED <<caller, printed, jet_stream_seq, num_rounds, rock, y, fsteps, visited,
                   cycle, result>>

\* Lines 261-266.
Finish ==
    /\ pc = "finish"
    /\ LET c == cycle[1]
           end_garbage_height == Len(chamber) - Len(c.after_cycle)
           cycles == MulWide(num_cycles, c.cycle_height)
           a == AddWide(ToUsize(c.start_garbage_height), Low(cycles))
           b == AddWide(Low(a), ToUsize(end_garbage_height))
           r == SubWide(Low(b), ToUsize(1))
       IN  /\ result' = Low(r)
           /\ wrapped' = (wrapped \/ Carry(cycles) # 0 \/ Carry(a) # 0
                            \/ Carry(b) # 0 \/ Carry(r) # 0)
    /\ pc' = "done"
    /\ UNCHANGED <<caller, printed, jet_stream_seq, num_rounds, phase, chamber, steps,
                   rock_i, jet_stream_index, rock, y, fsteps, visited, cycle, num_cycles,
                   end_garbage_steps, panic>>

\* play entered with the cycle record of the call before.
EnterPlayKeepVisited(n) ==
    /\ num_rounds' = n
    /\ pc' = "until"
    /\ phase' = "detect"
    /\ chamber' = EmptyChamber
    /\ steps' = 0
    /\ rock_i' = 0
    /\ jet_stream_index' = 0
    /\ rock' = NoRock
    /\ y' = 0
    /\ fsteps' = 0
    /\ visited' = visited
    /\ cycle' = NoCycle
    /\ num_cycles' = Zero
    /\ end_garbage_steps' = Zero
    /\ wrapped' = FALSE
    /\ result' = <<>>

\* Lines 208-224 and 184-185: play is entered with target n.
EnterPlay(n) ==
    /\ num_rounds' = n
    /\ pc' = "until"
    /\ phase' = "detect"
    /\ chamber' = EmptyChamber
    /\ steps' = 0
    /\ rock_i' = 0
    /\ jet_stream_index' = 0
    /\ rock' = NoRock
    /\ y' = 0
    /\ fsteps' = 0
    /\ visited' = <<>>
    /\ cycle' = NoCycle
    /\ num_cycles' = Zero
    /\ end_garbage_steps' = Zero
    /\ wrapped' = FALSE
    /\ result' = <<>>

\* Lines 273-274: main prints what play returned, and after the first value
\* calls play again over the same sequence.
MainPrint ==
    /\ caller = "main"
    /\ pc = "done"
    /\ printed' = Append(printed, result)
    /\ IF Len(printed) = 0
       THEN EnterPlay(TenTo12)
       ELSE /\ pc' = "exit"
            /\ UNCHANGED <<num_rounds, phase, chamber, steps, rock_i, jet_stream_index,
                           rock, y, fsteps, visited, cycle, num_cycles,
                           end_garbage_steps, wrapped, result>>
    /\ UNCHANGED <<caller, jet_stream_seq, panic>>

Next ==
    \/ DetectUntil
    \/ ReplayUntil
    \/ TestUntil
    \/ LoopIter
    \/ Settle
    \/ Extrapolate
    \/ Finish
    \/ MainPrint

Spec == Init /\ [][Next]_vars

-----------------------------------------------------------------------------
(* The same functions as operators: fall_rock and play_aux run to their end *)
(* in one evaluation, for wind sequences that are not empty and hold only   *)
(* < and >.                                                                 *)

\* Lines 138-157: fall_rock's loop from its n-th iteration on.
RECURSIVE Descent(_, _, _, _, _, _)
Descent(ch, r, yy, seq, index, n) ==
    LET p == Pushed(ch, r, yy, seq, index, n)
    IN  IF ~intersects_at(ch, p, yy - 1)
        THEN Descent(ch, p, yy - 1, seq, index, n + 1)
        ELSE [rock |-> p, y |-> yy, steps |-> n + 1]

\* Lines 129-173.
fall_rock(ch, r, seq, index) ==
    LET d == Descent(ch, r, Len(ch) + Clearance, seq, index, 0)
    IN  [chamber |-> Settled(ch, d.rock, d.y), steps |-> d.steps]

\* Lines 176-206 with a closure that stops at k drops: the chamber, the next
\* rock index and the wind pointer at the stop.
RECURSIVE play_aux(_, _, _, _, _)
play_aux(k, ch, ri, seq, index) ==
    IF k = 0 THEN [chamber |-> ch, rock_i |-> ri, jet_stream_index |-> index]
    ELSE LET f == fall_rock(ch, starting_point(ri), seq, index)
         IN  play_aux(k - 1, f.chamber, (ri + 1) % NumRocks, seq,
                      NextIndex(index, f.steps, seq))

\* The tower's height (the floor row excluded) after n drops into the empty
\* chamber.
DirectHeight(n, seq) == Len(play_aux(n, EmptyChamber, 0, seq, 0).chamber) - 1

\* The rows k further drops add to the chamber.
Gain(k, ch, ri, seq, index) == Len(play_aux(k, ch, ri, seq, index).chamber) - Len(ch)

ValidWind(seq) == Len(seq) > 0 /\ \A i \in 1..Len(seq) : IsWind(seq[i])

-----------------------------------------------------------------------------
(* Claims. *)

Ended == pc \in {"done", "panic"}

\* C1: for the example wind sequence play(2022, sequence) returns 3068, the
\* height of the tower (floor excluded) after exactly 2022 drops.
C1_Example2022 ==
    (caller = "play" /\ jet_stream_seq = EXAMPLE /\ num_rounds = ToUsize(2022) /\ Ended)
        => (pc = "done" /\ result = ToUsize(3068))

C1_Witness ==
    /\ caller = "play" /\ jet_stream_seq = EXAMPLE /\ num_rounds = ToUsize(2022)
    /\ pc = "done" /\ cycle # NoCycle

\* 1514285714288 = 1 * 256^5 + 96 * 256^4 + 146 * 256^3 + 118 * 256^2
\*                 + 75 * 256 + 112.
ExampleHeightAtTenTo12 == <<112, 75, 118, 146, 96, 1, 0, 0>>

\* C2: for the example wind sequence play(10^12, sequence) returns
\* 1514285714288 by cycle detection and extrapolation: no usize operation
\* exceeds 64 bits and the leftover is below the cycle's length.
C2_ExampleTenTo12 ==
    (caller = "play" /\ jet_stream_seq = EXAMPLE /\ num_rounds = TenTo12)
        => /\ ~wrapped
           /\ phase = "replay"
                 => /\ IsSmall(end_garbage_steps)
                    /\ ToSmall(end_garbage_steps) < cycle[1].cycle_step_length
           /\ Ended
                 => /\ pc = "done"
                    /\ cycle # NoCycle
                    /\ result = ExampleHeightAtTenTo12

C2_Witness ==
    /\ caller = "play" /\ jet_stream_seq = EXAMPLE /\ num_rounds = TenTo12
    /\ pc = "done" /\ ~IsSmall(num_cycles)

\* C3: whenever play returns after a fingerprint repeat, its value is the
\* height of the tower after num_rounds drops made one by one into the empty
\* chamber (targets small enough to drop one by one).
C3_Consistency ==
    (caller = "play" /\ pc = "done" /\ UsizeGe(ToUsize(MaxDeepRounds), num_rounds))
        => /\ IsSmall(result)
           /\ ToSmall(result) = DirectHeight(ToSmall(num_rounds), jet_stream_seq)

\* C4: when the target is reached before any fingerprint repeats, play
\* returns the height of the live chamber after exactly num_rounds drops.
C4_TargetBeforeRepeat ==
    (caller = "play" /\ ValidWind(jet_stream_seq) /\ Ended /\ cycle = NoCycle)
        => /\ pc = "done"
           /\ ToUsize(steps) = num_rounds
           /\ result = ToUsize(Len(chamber) - 1)

\* The chamber tests::_01_falling_rocks expects, floor row first.
TenRocks ==
    << <<1, 1, 1, 1, 1, 1, 1>>,
       <<0, 0, 1, 1, 1, 1, 0>>,
       <<0, 0, 0, 1, 0, 0, 0>>,
       <<0, 0, 1, 1, 1, 0, 0>>,
       <<1, 1, 1, 1, 1, 0, 0>>,
       <<0, 0, 1, 0, 1, 0, 0>>,
       <<0, 0, 1, 0, 1, 0, 0>>,
       <<0, 0, 0, 0, 1, 0, 0>>,
       <<0, 0, 0, 0, 1, 1, 0>>,
       <<0, 0, 0, 0, 1, 1, 0>>,
       <<0, 1, 1, 1, 1, 0, 0>>,
       <<0, 0, 1, 0, 0, 0, 0>>,
       <<0, 1, 1, 1, 0, 0, 0>>,
       <<1, 1, 1, 1, 1, 1, 0>>,
       <<1, 1, 0, 0, 1, 1, 0>>,
       <<0, 0, 0, 0, 1, 1, 0>>,
       <<0, 0, 0, 0, 1, 0, 0>>,
       <<0, 0, 0, 0, 1, 0, 0>> >>

RECURSIVE RowCells(_, _)
RowCells(row, c) == IF c = 0 THEN 0 ELSE row[c] + RowCells(row, c - 1)

\* The sum of the cells of an array.
RECURSIVE Cells(_, _)
Cells(a, k) == IF k = 0 THEN 0 ELSE RowCells(a[k], Width) + Cells(a, k - 1)

\* The cells of the first n rocks of the catalog's round robin.
RECURSIVE RockCells(_)
RockCells(n) ==
    IF n = 0 THEN 0
    ELSE LET r == rocks[((n - 1) % NumRocks) + 1]
         IN  Cells(r, Len(r)) + RockCells(n - 1)

\* C5: play_aux from the empty chamber with the stop "drops so far >= k"
\* returns the chamber after exactly k settled rocks (its cells are the
\* floor's and those of the first k rocks); for the example wind sequence
\* and k = 10 it is the 18-row chamber of the test.
C5_StopAfterKRocks ==
    (caller = "test" /\ ValidWind(jet_stream_seq) /\ Ended)
        => /\ pc = "done"
           /\ ToUsize(steps) = num_rounds
           /\ Cells(chamber, Len(chamber)) = Width + RockCells(steps)
           /\ (jet_stream_seq = EXAMPLE /\ num_rounds = ToUsize(10))
                 => (chamber = TenRocks /\ Len(chamber) = 18)

C5_Witness ==
    /\ caller = "test" /\ jet_stream_seq = EXAMPLE /\ num_rounds = ToUsize(10)
    /\ pc = "done" /\ steps = 10

\* The state of the simulation at the first occurrence of the fingerprint
\* whose repeat has just been detected.
FirstOccurrence ==
    play_aux(cycle[1].start_garbage_steps, EmptyChamber, 0, jet_stream_seq, 0)

\* C6: two states of a run with equal fingerprints (next rock index, wind
\* pointer, topmost 10 rows) gain the same height over the next k drops, for
\* every k: stated of the first occurrence and the repeat of a fingerprint
\* and k up to MaxGain.
C6_FingerprintSound ==
    (caller = "play" /\ pc = "extrapolate"
        /\ Fingerprint(FirstOccurrence.chamber, FirstOccurrence.rock_i,
                       FirstOccurrence.jet_stream_index)
             = Fingerprint(chamber, rock_i, jet_stream_index))
        => \A k \in 0..MaxGain :
              Gain(k, FirstOccurrence.chamber, FirstOccurrence.rock_i,
                   jet_stream_seq, FirstOccurrence.jet_stream_index)
                = Gain(k, chamber, rock_i, jet_stream_seq, jet_stream_index)

\* C7: within a call of play the chamber's row count never decreases: the
\* height after N + 1 drops is at least the height after N drops (main's
\* second call of play, the step that prints, starts a new chamber).
C7_Monotone == [][printed' = printed => Len(chamber') >= Len(chamber)]_vars

\* A rock about to be settled entirely below the chamber's top row.
C7_Witness ==
    /\ pc = "settle"
    /\ steps > 0
    /\ y + Len(rock) < Len(chamber)

LengthOne == Len(jet_stream_seq) = 1 /\ IsWind(jet_stream_seq[1])

\* C8: on a wind sequence of length 1 play panics neither in the descent
\* loop nor in the wind pointer's arithmetic; the wind pointer stays 0, a
\* fingerprint repeat is detected within the first 10 drops, and every target
\* above 10 gets a height.
C8_LengthOne ==
    (caller = "play" /\ LengthOne)
        => /\ jet_stream_index = 0
           /\ panic \in {"", "unwrap on None"}
           /\ phase = "detect" => steps <= 10
           /\ (Ended /\ UsizeLess(ToUsize(10), num_rounds))
                 => /\ pc = "done"
                    /\ cycle # NoCycle
                    /\ cycle[1].jet_stream_cycle_at = 0
                    /\ cycle[1].cycle_step_length = NumRocks
                    /\ result # <<>>

C8_Witness ==
    /\ caller = "play" /\ LengthOne /\ num_rounds = ToUsize(2022)
    /\ pc = "done" /\ cycle # NoCycle

Malformed(seq) == \E i \in 1..Len(seq) : ~IsWind(seq[i])

\* C9: a character of the wind line outside {<, >} (a kept line terminator
\* included) always ends the run in the error for that character, whatever
\* the target and whether or not the simulation reaches the character.
C9_MalformedReported ==
    (Malformed(jet_stream_seq) /\ Ended) => (pc = "panic" /\ panic = "explicit panic")

\* C11: every iteration of a descent takes one wind, whether its push moved
\* the rock or was blocked; iteration j (from 0) pushes the way of the wind at
\* (old + j) mod len, old being the pointer the rock started with; and the
\* pointer after a rock of s iterations is (old + s) mod len.
C11_WindPointer ==
    [][/\ (pc = "loop" /\ pc' \in {"loop", "settle"}) =>
            /\ fsteps' = fsteps + 1
            /\ jet_stream_index' = jet_stream_index
            /\ Len(jet_stream_seq) > 0 =>
                   LET at == (jet_stream_index + fsteps) % Len(jet_stream_seq)
                       wind == jet_stream_seq[at + 1]
                   IN  /\ wind = "<" => rock' \in {rock, try_push_left(rock)}
                       /\ wind = ">" => rock' \in {rock, try_push_right(rock)}
       /\ (pc = "settle" /\ pc' = "until") =>
            /\ fsteps >= 1
            /\ jet_stream_index' =
                   (jet_stream_index + fsteps) % Len(jet_stream_seq)
      ]_vars

\* The pointer has wrapped within the descent of a later rock, and the wind
\* of the next iteration pushes the rock against the wall it touches.
C11_Witness ==
    /\ pc = "loop" /\ steps > 0 /\ fsteps > 0
    /\ jet_stream_index > 0
    /\ jet_stream_index + fsteps >= Len(jet_stream_seq)
    /\ WindAt(jet_stream_seq, jet_stream_index, fsteps) = ">"
    /\ try_push_right(rock) = rock

RECURSIVE LeftMost(_)
LeftMost(r) == IF try_push_left(r) = r THEN r ELSE LeftMost(try_push_left(r))

\* The drops since the empty chamber that the settled rocks of the state stand
\* for: the replay goes on from the drop count of the repeat.
DropIndex ==
    IF phase = "replay"
    THEN cycle[1].start_garbage_steps + cycle[1].cycle_step_length + steps
    ELSE steps

\* C12: the rock of drop d (from 0, from the empty chamber) has the shape
\* d mod 5 of the order Line, Plus, L, I, O, in the detection and in the
\* replay of the leftover, which goes on from the rock index of the repeat.
C12_RockOrder ==
    /\ pc \in {"until", "loop", "settle"} => rock_i = DropIndex % 5
    /\ pc \in {"loop", "settle"} =>
           LeftMost(rock) = LeftMost(<<Line, Plus, L, I, O>>[(DropIndex % 5) + 1])

\* A rock of the replay whose shape is not the one of its number in the replay.
C12_Witness ==
    /\ phase = "replay" /\ pc = "loop" /\ steps > 0 /\ fsteps > 0
    /\ steps % 5 # DropIndex % 5

\* C13: after any drops every cell of the chamber holds 0 or 1 (no two rocks
\* share a cell), every row has the columns 0 .. 6 and no others, and the
\* rows are those below the height, with nothing at or above it.
C13_ChamberCells ==
    /\ DOMAIN chamber = 1..Len(chamber)
    /\ \A k \in 1..Len(chamber) :
           /\ DOMAIN chamber[k] = 1..Width
           /\ \A c \in 1..Width : chamber[k][c] \in {0, 1}

\* A rock has come to rest with its lowest lane below the top of the tower,
\* beside what was there.
C13_Witness ==
    /\ pc = "settle" /\ steps > 2
    /\ y + 1 < Len(chamber)
    /\ \E c \in 1..Width : chamber[y + 2][c] = 1 /\ rock[2][c] = 0
    /\ Len(rock) > 2

\* The state of the simulation at the repeat: after start_garbage_steps +
\* cycle_step_length drops into the empty chamber.
AtRepeat ==
    play_aux(cycle[1].start_garbage_steps + cycle[1].cycle_step_length,
             EmptyChamber, 0, jet_stream_seq, 0)

\* C14 as stated: the leftover height is the height gained by replaying the
\* leftover drops from the chamber, the rock index and the wind pointer of the
\* first occurrence of the repeated fingerprint.
C14_LeftoverFromFirstOccurrence ==
    (caller = "play" /\ pc = "finish") =>
        Len(chamber) - Len(cycle[1].after_cycle)
            = Gain(ToSmall(end_garbage_steps), FirstOccurrence.chamber,
                   FirstOccurrence.rock_i, jet_stream_seq,
                   FirstOccurrence.jet_stream_index)

\* C14 amended: the leftover height is the height gained by replaying the
\* leftover drops from the chamber at the repeat of the fingerprint, with the
\* rock index and the wind pointer of the repeat, which are those of the first
\* occurrence.
C14_LeftoverFromRepeat ==
    (caller = "play" /\ pc = "finish") =>
        LET c == cycle[1]
        IN  /\ c.after_cycle = AtRepeat.chamber
            /\ c.rocks_cycle_at = AtRepeat.rock_i
            /\ c.rocks_cycle_at = FirstOccurrence.rock_i
            /\ c.jet_stream_cycle_at = AtRepeat.jet_stream_index
            /\ c.jet_stream_cycle_at = FirstOccurrence.jet_stream_index
            /\ Len(chamber) - Len(c.after_cycle)
                  = Gain(ToSmall(end_garbage_steps), AtRepeat.chamber,
                         AtRepeat.rock_i, jet_stream_seq, AtRepeat.jet_stream_index)

\* A replay of four or more leftover drops that has added rows.
C14_Witness ==
    /\ caller = "play" /\ pc = "finish"
    /\ ~UsizeLess(end_garbage_steps, ToUsize(4))
    /\ Len(chamber) > Len(cycle[1].after_cycle)
    /\ cycle[1].after_cycle # FirstOccurrence.chamber

\* C15: the height returned is start_height + full_cycles * cycle_height +
\* leftover_height, the floor row taken off once (the start height is the row
\* count at the first occurrence less the floor, the other two are
\* differences of row counts), where full_cycles and leftover_rocks are the
\* quotient and the remainder of N - start_rocks by cycle_length, so that
\* start_rocks + full_cycles * cycle_length + leftover_rocks = N.
C15_Extrapolation ==
    (caller = "play" /\ phase = "replay") =>
        LET c == cycle[1]
            whole == MulWide(num_cycles, c.cycle_step_length)
            upto == AddWide(ToUsize(c.start_garbage_steps), Low(whole))
            all == AddWide(Low(upto), end_garbage_steps)
            cycles == MulWide(num_cycles, c.cycle_height)
            below == AddWide(ToUsize(c.start_garbage_height - 1), Low(cycles))
            height == AddWide(Low(below),
                              ToUsize(Len(chamber) - Len(c.after_cycle)))
        IN  /\ ~wrapped
            /\ Carry(whole) = 0 /\ Carry(upto) = 0 /\ Carry(all) = 0
            /\ Low(all) = num_rounds
            /\ UsizeLess(end_garbage_steps, ToUsize(c.cycle_step_length))
            /\ IsSmall(num_rounds) =>
                   LET n == ToSmall(num_rounds) - c.start_garbage_steps
                   IN  /\ ToSmall(num_cycles) = n \div c.cycle_step_length
                       /\ ToSmall(end_garbage_steps) = n % c.cycle_step_length
            /\ c.start_garbage_height >= 1
            /\ pc = "done" =>
                   /\ Carry(cycles) = 0 /\ Carry(below) = 0 /\ Carry(height) = 0
                   /\ result = Low(height)

\* A height returned for the target 10^12 with leftover drops replayed.
C15_Witness ==
    /\ caller = "play" /\ phase = "replay" /\ pc = "done"
    /\ num_rounds = TenTo12
    /\ end_garbage_steps # Zero
    /\ Len(chamber) > Len(cycle[1].after_cycle)

\* C16: at the repeat of a fingerprint the detector reports cycle_length =
\* drops so far - start_rocks and cycle_height = rows now - rows at
\* start_rocks, start_rocks being an earlier drop count at which the run had
\* this fingerprint; cycle_length is at least 1 and cycle_height at least 0.
C16_CycleMeasures ==
    (caller # "test" /\ pc = "extrapolate") =>
        LET c == cycle[1]
            key == Fingerprint(chamber, rock_i, jet_stream_index)
        IN  /\ c.start_garbage_steps \in 0..(steps - 1)
            /\ Fingerprint(FirstOccurrence.chamber, FirstOccurrence.rock_i,
                           FirstOccurrence.jet_stream_index) = key
            /\ c.start_garbage_height = Len(FirstOccurrence.chamber)
            /\ c.cycle_step_length = steps - c.start_garbage_steps
            /\ c.cycle_height = Len(chamber) - Len(FirstOccurrence.chamber)
            /\ c.cycle_step_length >= 1
            /\ c.cycle_height >= 0

\* A repeat detected more than one round of the five shapes after the first
\* occurrence.
C16_Witness ==
    /\ caller = "play" /\ pc = "extrapolate"
    /\ cycle[1].cycle_step_length > NumRocks
    /\ cycle[1].cycle_height > 0
    /\ cycle[1].start_garbage_steps > 0

\* C17 as stated, the height being the tower's (the floor row is no settled
\* material): while the tower is lower than 10 rows nothing is recorded and
\* no repeat reported, so every recorded contour is 10 rows of settled rock.
C17_TenRowsOfRock ==
    /\ (phase = "detect" /\ Len(chamber) - 1 < ContourDepth) =>
           (visited = <<>> /\ cycle = NoCycle)
    /\ \A key \in DOMAIN visited : visited[key][2] - 1 >= ContourDepth

\* C17 amended: the threshold is on the row count of the chamber array, the
\* floor row included. While the array has fewer than 10 rows nothing is
\* recorded and no repeat reported; every recorded contour has 10 array rows,
\* of which at least 9 are settled rock (the lowest is the floor row when the
\* array had exactly 10 rows).
C17_TenArrayRows ==
    /\ (phase = "detect" /\ Len(chamber) < ContourDepth) =>
           (visited = <<>> /\ cycle = NoCycle)
    /\ \A key \in DOMAIN visited :
           /\ visited[key][2] >= ContourDepth
           /\ Len(key[3]) = ContourDepth
    /\ cycle # NoCycle => Len(cycle[1].after_cycle) > ContourDepth

\* A contour recorded at 10 array rows: its lowest row is the floor.
C17_Witness ==
    \E key \in DOMAIN visited :
        /\ visited[key][2] = ContourDepth
        /\ key[3][1] = Floor

RecordedDrops == {visited[key][1] : key \in DOMAIN visited}

\* C18: the entries of the cycle record are written once. A step of the
\* detection keeps every entry as it is and adds at most the fingerprint of
\* the state checked, unseen until then, with the drop count and the row
\* count of that state; and the drop counts recorded are one per check since
\* the first recording, so each entry is the first occurrence of its key.
C18_WriteOnce ==
    /\ [][printed' = printed =>
            /\ \A key \in DOMAIN visited :
                   key \in DOMAIN visited' /\ visited'[key] = visited[key]
            /\ \A key \in DOMAIN visited' \ DOMAIN visited :
                   /\ phase = "detect" /\ pc = "until"
                   /\ key = Fingerprint(chamber, rock_i, jet_stream_index)
                   /\ visited'[key] = <<steps, Len(chamber)>>
         ]_vars
    /\ [](phase = "detect" /\ pc \in {"until", "loop", "settle", "extrapolate"}
            /\ visited # <<>>
          => LET n == Cardinality(DOMAIN visited)
                 top == IF pc \in {"loop", "settle"} THEN steps ELSE steps - 1
             IN  RecordedDrops = (top - n + 1)..top)

\* Three fingerprints recorded, and the detection still running.
C18_Witness ==
    /\ phase = "detect" /\ pc = "until"
    /\ Cardinality(DOMAIN visited) >= 3

\* The drop count at which the closure of the phase stops the loop.
Limit == IF phase = "replay" THEN end_garbage_steps ELSE num_rounds

PcRank(p) ==
    CASE p = "until" -> 4
      [] p = "loop" -> 3
      [] p \in {"settle", "extrapolate", "finish"} -> 2
      [] p = "done" -> 1
      [] OTHER -> 0

\* A step lowers the measure <<calls of play main has yet to print, phases of
\* play left, drops left up to Limit, place within the drop, rows the rock can
\* still fall>>, whose components are naturals compared in this order.
Lowers ==
    \/ Len(printed') > Len(printed) /\ Len(printed') <= 2
    \/ /\ printed' = printed
       /\ phase # "replay" /\ phase' = "replay"
    \/ /\ printed' = printed /\ phase' = phase /\ Limit' = Limit
       /\ steps' > steps /\ UsizeGe(Limit, ToUsize(steps'))
    \/ /\ printed' = printed /\ phase' = phase /\ Limit' = Limit
       /\ steps' = steps /\ PcRank(pc') < PcRank(pc)
    \/ /\ printed' = printed /\ phase' = phase /\ Limit' = Limit
       /\ steps' = steps /\ pc' = pc
       /\ y' < y /\ y' >= 0

\* C19: over a non-empty sequence of < and > play comes to an end for every
\* target: every step lowers a measure in a well-founded order, so no run
\* goes on for ever. The detection goes past a pre-drop check only while the
\* drop count is below N and the fingerprint is unseen, and stops at the
\* first check at which the drop count is N or the fingerprint repeats; the
\* replay of the leftover stops after exactly end_garbage_steps drops.
C19_Terminates ==
    /\ [][ValidWind(jet_stream_seq) => Lowers]_vars
    /\ []((caller = "play" /\ ValidWind(jet_stream_seq) /\ phase = "detect") =>
            LET key == Fingerprint(chamber, rock_i, jet_stream_index)
            IN  /\ pc \in {"loop", "settle"} =>
                       /\ UsizeLess(ToUsize(steps), num_rounds)
                       /\ Len(chamber) >= ContourDepth =>
                              visited[key] = <<steps, Len(chamber)>>
                /\ pc = "extrapolate" =>
                       /\ UsizeLess(ToUsize(steps), num_rounds)
                       /\ key \in DOMAIN visited
                       /\ visited[key][1] < steps
                /\ pc = "panic" =>
                       /\ panic = "unwrap on None"
                       /\ ToUsize(steps) = num_rounds)
    /\ []((caller = "play" /\ ValidWind(jet_stream_seq) /\ phase = "replay") =>
            /\ pc # "panic"
            /\ UsizeGe(end_garbage_steps, ToUsize(steps))
            /\ pc \in {"finish", "done"} => ToUsize(steps) = end_garbage_steps)

\* The run for the target 2022 over the example has come to its end through
\* a repeat and a replay of leftover drops.
C19_Witness ==
    /\ caller = "play" /\ jet_stream_seq = EXAMPLE /\ num_rounds = ToUsize(2022)
    /\ pc = "done"
    /\ steps > 0 /\ ToUsize(steps) = end_garbage_steps

\* C20: main runs play for 2022 drops and then for 10^12 drops over the same
\* sequence and prints the two heights in this order. The second run starts
\* as a run of play on its own starts: empty chamber, rock index 0, wind
\* pointer 0, empty cycle record, nothing kept of the first run but its
\* printed height; so it returns what play(10^12) returns (for the example
\* 1514285714288 after 3068).
C20_MainTwoRuns ==
    caller = "main" =>
        /\ Len(printed) <= 2
        /\ (Len(printed) = 0 /\ pc # "panic") => num_rounds = ToUsize(2022)
        /\ Len(printed) >= 1 => num_rounds = TenTo12
        /\ (Len(printed) = 1 /\ phase = "detect" /\ pc = "until" /\ steps = 0) =>
               /\ chamber = EmptyChamber
               /\ rock_i = 0
               /\ jet_stream_index = 0
               /\ visited = <<>>
               /\ cycle = NoCycle
               /\ num_cycles = Zero /\ end_garbage_steps = Zero
               /\ result = <<>> /\ ~wrapped /\ panic = ""
        /\ pc = "exit" => (Len(printed) = 2 /\ printed[2] = result)
        /\ (jet_stream_seq = EXAMPLE /\ Len(printed) >= 1) =>
               printed[1] = ToUsize(3068)
        /\ (jet_stream_seq = EXAMPLE /\ Len(printed) = 2) =>
               printed[2] = ExampleHeightAtTenTo12
        /\ (jet_stream_seq = EXAMPLE /\ Len(printed) = 1 /\ pc = "extrapolate") =>
               (steps = 54 /\ cycle[1].start_garbage_steps = 19)

\* main has printed two different heights and is at its end.
C20_Witness ==
    /\ caller = "main" /\ pc = "exit"
    /\ Len(printed) = 2
    /\ printed[1] # printed[2]

\* The occupied cells of a chamber, as <<row, column>> from <<0, 0>>.
Occupied(ch) ==
    {rc \in (0..(Len(ch) - 1)) \X (0..(Width - 1)) : ch[rc[1] + 1][rc[2] + 1] > 0}

\* The cells a rock covers with its lowest lane at row yy.
RockAt(r, yy) ==
    {<<yy + i, c>> : <<i, c>> \in
        {ic \in (0..(Len(r) - 1)) \X (0..(Width - 1)) : r[ic[1] + 1][ic[2] + 1] > 0}}

\* Cells moved d columns to the right.
Shift(cells, d) == {<<rc[1], rc[2] + d>> : rc \in cells}

\* Cells that lie within the walls and on no occupied cell of the chamber.
CanPlace(cells, ch) ==
    /\ \A rc \in cells : rc[2] \in 0..(Width - 1)
    /\ cells \cap Occupied(ch) = {}

\* The wind of the iteration at hand, as a step in columns.
Dir ==
    IF jet_stream_seq[((jet_stream_index + fsteps) % Len(jet_stream_seq)) + 1] = "<"
    THEN 0 - 1 ELSE 1

\* C21: an iteration of a descent is one push attempt and then one fall
\* attempt: the push is tried in the row the rock has before the fall, and
\* the fall is tried with the rock as the push left it; the descent
\* goes on one row lower when that fall is free and ends at the first fall
\* that is not, and the rock is settled in the row and the columns it had
\* just before that failed fall, the last push included.
C21_PushThenFall ==
    [][/\ (pc = "loop" /\ pc' \in {"loop", "settle"}) =>
            /\ fsteps' = fsteps + 1
            /\ chamber' = chamber
            /\ rock' # rock => CanPlace(RockAt(rock', y), chamber)
            /\ (rock' = rock /\ Len(jet_stream_seq) > 0) =>
                   ~CanPlace(Shift(RockAt(rock, y), Dir), chamber)
            /\ IF RockAt(rock', y - 1) \cap Occupied(chamber) = {}
               THEN y' = y - 1 /\ pc' = "loop"
               ELSE y' = y /\ pc' = "settle"
       /\ (pc = "settle" /\ pc' = "until") =>
            /\ Occupied(chamber') = Occupied(chamber) \cup RockAt(rock, y)
            /\ RockAt(rock, y - 1) \cap Occupied(chamber) # {}
      ]_vars

\* A rock the last push has moved is about to be settled below the top row.
C21_Witness ==
    /\ pc = "settle" /\ steps > 0 /\ fsteps > Clearance + 1
    /\ y < Len(chamber)
    /\ RockAt(try_push_left(rock), y - 1) \cap Occupied(chamber) = {}
    /\ try_push_left(rock) # rock

\* C22: a push moves the rock one column the way of the wind exactly when
\* every cell of the shifted rock is within columns 0 .. 6 and on no occupied
\* cell of the chamber; otherwise the rock keeps its columns. The push
\* changes neither the rock's row nor its lanes nor the chamber.
C22_PushFrame ==
    [][(pc = "loop" /\ pc' \in {"loop", "settle"} /\ Len(jet_stream_seq) > 0) =>
            LET before == RockAt(rock, y)
                shifted == Shift(before, Dir)
            IN  /\ RockAt(rock', y) =
                       IF CanPlace(shifted, chamber) THEN shifted ELSE before
                /\ Len(rock') = Len(rock)
                /\ \A i \in 1..Len(rock') : Len(rock'[i]) = Width
                /\ chamber' = chamber
      ]_vars

\* The push at hand stays within the walls and is blocked by settled rock.
C22_Witness ==
    /\ pc = "loop" /\ y > 0 /\ ValidWind(jet_stream_seq)
    /\ \A rc \in Shift(RockAt(rock, y), Dir) : rc[2] \in 0..(Width - 1)
    /\ Shift(RockAt(rock, y), Dir) \cap Occupied(chamber) # {}

\* The highest row of the chamber with an occupied cell (the floor is row 0).
TopRow(ch) == CHOOSE k \in 0..(Len(ch) - 1) :
    /\ \E rc \in Occupied(ch) : rc[1] = k
    /\ \A rc \in Occupied(ch) : rc[1] <= k

\* C23: every rock starts with its leftmost cell in column 2 and its lowest
\* lane three empty rows above the highest occupied row of the chamber (the
\* floor in the empty chamber), whatever the shape and the chamber, the
\* chamber of the replay included.
C23_Spawn ==
    (pc = "loop" /\ fsteps = 0) =>
        LET cells == RockAt(rock, y)
        IN  /\ \E rc \in cells : rc[2] = 2
            /\ \A rc \in cells : rc[2] >= 2
            /\ \E rc \in cells : rc[1] = y
            /\ \A rc \in cells : rc[1] >= y
            /\ y = TopRow(chamber) + Clearance + 1
            /\ rock \in {Line, Plus, L, I, O}

\* A rock of three lanes started in the replay, above a chamber left by the
\* detection.
C23_Witness ==
    /\ phase = "replay" /\ pc = "loop" /\ fsteps = 0 /\ steps > 0
    /\ Len(rock) = 3
    /\ y > ContourDepth + Clearance

\* C24: settling a rock at row y marks the rock's cells, none of which was
\* occupied, and no other cell; the row count becomes the larger of the row
\* count before and y + the rock's lanes; no step of a call clears a cell,
\* and the floor row stays fully occupied.
C24_SettleFrame ==
    /\ [][/\ (pc = "settle" /\ pc' = "until") =>
               /\ Occupied(chamber') = Occupied(chamber) \cup RockAt(rock, y)
               /\ Occupied(chamber) \cap RockAt(rock, y) = {}
               /\ Len(chamber') = IF Len(chamber) > y + Len(rock)
                                  THEN Len(chamber) ELSE y + Len(rock)
          /\ (printed' = printed /\ ~(pc = "settle" /\ pc' = "until")) =>
               chamber' = chamber
         ]_vars
    /\ [](chamber[1] = Floor)

\* A rock about to be settled into rows that hold settled cells already,
\* with its top lane above the chamber's last row.
C24_Witness ==
    /\ pc = "settle" /\ steps > 0
    /\ y < Len(chamber) /\ Len(chamber) < y + Len(rock)
    /\ \E rc \in Occupied(chamber) : rc[1] >= y

\* C25: at every point of a descent (at the start, after each push, after
\* each fall) the rock is whole, within columns 0 .. 6, at row 1 or above,
\* and on no occupied cell of the chamber.
C25_PositionValid ==
    pc \in {"loop", "settle"} =>
        /\ y >= 1
        /\ CanPlace(RockAt(rock, y), chamber)
        /\ Len(rock) = Len(starting_point(rock_i))
        /\ \A i \in 1..Len(rock) : Len(rock[i]) = Width
        /\ Cardinality(RockAt(rock, y)) = Cardinality(RockAt(starting_point(rock_i), y))

\* A rock in mid-descent at a wall, in a row that holds settled cells.
C25_Witness ==
    /\ pc = "loop" /\ steps > 0 /\ fsteps > Clearance
    /\ y < Len(chamber)
    /\ \E rc \in Occupied(chamber) : rc[1] = y
    /\ \E rc \in RockAt(rock, y) : rc[2] = 0

\* The topmost ContourDepth rows of a chamber, cell by cell.
TopCells(ch) ==
    [k \in 1..ContourDepth |->
        [c \in 1..Width |-> ch[Len(ch) - ContourDepth + k][c]]]

\* C26: a repeat is declared only when the state checked and the state of a
\* recorded earlier check agree in all three of: the index of the next rock,
\* the wind pointer, the cells of the topmost 10 rows. A check whose state
\* differs from every recorded one in at least one of the three goes on to
\* the next drop.
C26_ThreeComponents ==
    /\ (caller # "test" /\ pc = "extrapolate") =>
           /\ FirstOccurrence.rock_i = rock_i
           /\ FirstOccurrence.jet_stream_index = jet_stream_index
           /\ Len(FirstOccurrence.chamber) >= ContourDepth
           /\ TopCells(FirstOccurrence.chamber) = TopCells(chamber)
           /\ \E key \in DOMAIN visited :
                  /\ key[1] = rock_i /\ key[2] = jet_stream_index
                  /\ key[3] = TopCells(chamber)
                  /\ visited[key][1] = cycle[1].start_garbage_steps
    /\ (phase = "detect" /\ pc \in {"loop", "settle"}
            /\ Len(chamber) >= ContourDepth) =>
           \A key \in DOMAIN visited :
               visited[key][1] < steps =>
                   \/ key[1] # rock_i
                   \/ key[2] # jet_stream_index
                   \/ key[3] # TopCells(chamber)

\* A check has gone on to the next drop although a recorded state has the
\* same next rock and the same topmost rows: the wind pointers differ.
C26_Witness ==
    /\ phase = "detect" /\ pc = "loop" /\ Len(chamber) >= ContourDepth
    /\ \E key \in DOMAIN visited :
           /\ visited[key][1] < steps
           /\ key[1] = rock_i
           /\ key[3] = TopCells(chamber)
           /\ key[2] # jet_stream_index

\* C27: the repeat ends the detection of a call of play for good: from the
\* first repeat on the cycle record and the reported cycle stay as they are,
\* the detection checks no further state and drops no further rock, and the
\* chamber changes by the drops of the leftover replay only.
C27_ExtrapolatedTerminal ==
    /\ [](cycle # NoCycle =>
            /\ phase \in {"detect", "replay"}
            /\ phase = "detect" => pc \in {"extrapolate", "panic"})
    /\ [][(cycle # NoCycle /\ printed' = printed) =>
              /\ cycle' = cycle
              /\ visited' = visited
              /\ phase' = "replay"
              /\ chamber' # chamber => (phase = "replay" /\ pc = "settle")
         ]_vars

\* The replay has dropped a rock after the repeat, the cycle record as the
\* repeat left it.
C27_Witness ==
    /\ cycle # NoCycle /\ phase = "replay" /\ pc = "until"
    /\ steps > 1
    /\ Cardinality(DOMAIN visited) = cycle[1].cycle_step_length
    /\ chamber # cycle[1].after_cycle

\* The chamber, the next rock index and the wind pointer of the state.
Stepper == [chamber |-> chamber, rock_i |-> rock_i, jet_stream_index |-> jet_stream_index]

\* C28: the callback of play_aux reads and never writes: the chamber, the
\* rock index and the wind pointer at each pre-drop check are those of the
\* drops alone, from the arguments play_aux was called with, whichever
\* callback (the cycle detector, the stop of the replay, the stop of the
\* test) looks on; and the step of a callback changes none of the three.
C28_CallbackReadsOnly ==
    /\ [](pc = "until" =>
            Stepper = IF phase = "replay"
                      THEN play_aux(steps, cycle[1].after_cycle, cycle[1].rocks_cycle_at,
                                    jet_stream_seq, cycle[1].jet_stream_cycle_at)
                      ELSE play_aux(steps, EmptyChamber, 0, jet_stream_seq, 0))
    /\ [][(pc = "until" /\ printed' = printed) => Stepper' = Stepper]_vars

\* The test's stop has let the loop go on for the third time, the wind
\* pointer away from 0.
C28_Witness ==
    /\ phase = "test" /\ pc = "until"
    /\ steps > 2 /\ jet_stream_index > 0
    /\ UsizeLess(ToUsize(steps), num_rounds)

\* C29: every rock takes at least 4 winds. In its first three iterations
\* the rock is above every row of the chamber: a push is blocked by a wall
\* or not at all, and the fall succeeds; the fall of the fourth iteration is
\* the first that can fail.
C29_FourWinds ==
    /\ [](pc = "settle" => fsteps >= Clearance + 1)
    /\ []((pc = "loop" /\ fsteps <= Clearance) =>
             (y = Len(chamber) + Clearance - fsteps /\ y >= Len(chamber)))
    /\ [][(pc = "loop" /\ fsteps < Clearance /\ pc' # "panic"
             /\ Len(jet_stream_seq) > 0) =>
              LET before == RockAt(rock, y)
                  shifted == Shift(before, Dir)
              IN  /\ pc' = "loop"
                  /\ y' = y - 1
                  /\ fsteps' = fsteps + 1
                  /\ RockAt(rock', y) =
                         IF \A rc \in shifted : rc[2] \in 0..(Width - 1)
                         THEN shifted ELSE before
         ]_vars

\* The fourth fall of a rock has failed: it rests on the chamber's last row.
C29_Witness ==
    /\ pc = "settle" /\ steps > 0
    /\ fsteps = Clearance + 1
    /\ y = Len(chamber)

\* C30: a descent takes at most as many iterations as the row the rock
\* started at, and the rock's row stays at 1 or above, so y - 1 is never
\* taken of 0: row 0 of the chamber is full in every phase, the replay from
\* the recorded chamber included, and every shape overlaps it there.
C30_DescentBounded ==
    /\ [](pc \in {"loop", "settle"} =>
             /\ y >= 1
             /\ fsteps <= Len(chamber) + Clearance
             /\ y + fsteps = Len(chamber) + Clearance + (IF pc = "settle" THEN 1 ELSE 0)
             /\ \A c \in 1..Width : chamber[1][c] > 0
             /\ RockAt(rock, 0) \cap Occupied(chamber) # {})
    /\ [](panic # "attempt to subtract with overflow")
    /\ [][pc = "loop" => (y' >= 1 /\ y' >= y - 1)]_vars

\* A later rock that fell as many times as it could, past rows of rock: it
\* rests on row 0 after as many iterations as the row it started at.
C30_Witness ==
    /\ pc = "settle" /\ steps > 0
    /\ Len(chamber) >= 3
    /\ y = 1
    /\ fsteps = Len(chamber) + Clearance

\* C31: when the detection has ended with a repeat, the repeat was seen at a
\* drop count below N, so N - start_rocks is taken without a borrow and is
\* greater than the cycle's length; the number of whole cycles is at least 1
\* and the leftover is below the cycle's length, and the replay drops no
\* more rocks than the leftover.
C31_RepeatBeforeTarget ==
    /\ (caller # "test" /\ pc = "extrapolate") =>
          LET c == cycle[1]
              remaining == SubWide(num_rounds, ToUsize(c.start_garbage_steps))
          IN  /\ UsizeLess(ToUsize(steps), num_rounds)
              /\ c.cycle_step_length >= 1
              /\ Carry(remaining) = 0
              /\ UsizeLess(ToUsize(c.cycle_step_length), Low(remaining))
    /\ (caller # "test" /\ phase = "replay" /\ pc \in {"until", "loop", "settle", "finish"}) =>
          LET c == cycle[1]
              remaining == SubWide(num_rounds, ToUsize(c.start_garbage_steps))
          IN  /\ UsizeGe(num_cycles, ToUsize(1))
              /\ IsSmall(end_garbage_steps)
              /\ ToSmall(end_garbage_steps) \in 0..(c.cycle_step_length - 1)
              /\ steps \in 0..ToSmall(end_garbage_steps)
              /\ Low(AddWide(Low(MulWide(num_cycles, c.cycle_step_length)),
                             end_garbage_steps)) = Low(remaining)

\* A replay that has dropped its last rock, after more than one whole cycle
\* and with a leftover that is not 0.
C31_Witness ==
    /\ caller = "play" /\ phase = "replay" /\ pc = "finish"
    /\ UsizeGe(num_cycles, ToUsize(2))
    /\ steps > 0
    /\ steps = ToSmall(end_garbage_steps)

\* C32: a falling rock is its shape moved sideways, whatever winds have
\* pushed it, with the shape's 4, 5, 5, 4 or 4 cells (Line, Plus, L, I, O),
\* and the settle adds exactly that many occupied cells to the chamber.
C32_ShapeKept ==
    /\ [](pc \in {"loop", "settle"} =>
             /\ \E d \in (0 - Width)..Width :
                    RockAt(rock, 0) = Shift(RockAt(starting_point(rock_i), 0), d)
             /\ Cardinality(RockAt(rock, y)) = <<4, 5, 5, 4, 4>>[rock_i + 1])
    /\ [][(pc = "settle" /\ pc' # "panic") =>
              Cardinality(Occupied(chamber')) =
                  Cardinality(Occupied(chamber)) + <<4, 5, 5, 4, 4>>[rock_i + 1]
         ]_vars

\* A Plus about to settle at the right wall, the last wind having blown to
\* the right.
C32_Witness ==
    /\ pc = "settle" /\ rock_i = 1
    /\ \E rc \in RockAt(rock, y) : rc[2] = Width - 1
    /\ fsteps > Clearance + 1
    /\ jet_stream_seq[((jet_stream_index + fsteps - 1) % Len(jet_stream_seq)) + 1] = ">"

\* C33: the chamber's last row is never empty: the number of rows is 1 + the
\* index of the highest occupied row, so the rows above the floor are the
\* tower's height; a settle leaves the row count as it is or raises it to
\* the row above the rock's highest lane, which holds a cell of the rock.
C33_NoEmptyTopRow ==
    /\ [](/\ Len(chamber) >= 1
          /\ \E c \in 1..Width : chamber[Len(chamber)][c] > 0
          /\ LET occupied(k) == \E c \in 1..Width : chamber[k + 1][c] > 0
                 highest == CHOOSE k \in 0..(Len(chamber) - 1) :
                                /\ occupied(k)
                                /\ \A j \in (k + 1)..(Len(chamber) - 1) : ~occupied(j)
             IN  Len(chamber) = 1 + highest
          /\ pc \in {"loop", "settle"} =>
                \A i \in 1..Len(rock) : \E c \in 1..Width : rock[i][c] > 0)
    /\ [][(pc = "settle" /\ pc' # "panic") =>
              Len(chamber') = IF Len(chamber) < y + Len(rock)
                              THEN y + Len(rock) ELSE Len(chamber)
         ]_vars

\* A rock about to settle with its highest lane below the chamber's last
\* row: the row count stays as it is.
C33_Witness ==
    /\ pc = "settle" /\ steps > 0
    /\ y + Len(rock) < Len(chamber)

\* C34: whenever the stop is asked before a drop, in the detection, in the
\* replay of the leftover and under the test's stop, the wind pointer is one
\* of the len places of a wind sequence that has any and the next rock's
\* index is one of the 5 of the catalog; so are the components of every
\* fingerprint on record.
C34_IndexRanges ==
    /\ pc = "until" =>
          /\ rock_i \in 0..(NumRocks - 1)
          /\ jet_stream_index >= 0
          /\ Len(jet_stream_seq) > 0 =>
                 jet_stream_index \in 0..(Len(jet_stream_seq) - 1)
    /\ \A key \in DOMAIN visited :
          /\ key[1] \in 0..(NumRocks - 1)
          /\ key[2] \in 0..(Len(jet_stream_seq) - 1)

\* The replay asks its stop before a later drop with the pointer at the last
\* wind of the sequence.
C34_Witness ==
    /\ pc = "until" /\ phase = "replay" /\ steps > 0
    /\ Len(jet_stream_seq) > 1
    /\ jet_stream_index = Len(jet_stream_seq) - 1
    /\ rock_i > 0

====
